---- MODULE Spec2Model ----
(***************************************************************************)
(* Model of the reconciliation core of the elasticsearch operator:         *)
(*   - secret.CreateOrUpdate and its equality / mutation functions, run     *)
(*     against one object key of an API server with optimistic concurrency  *)
(*     while other writers update, delete and re-create the same object;    *)
(*   - elasticsearch.newResourceRequirements, the three-tier resolution of  *)
(*     cpu and memory requests and limits;                                  *)
(*   - secret.GetDataSHA256, the fingerprint of a secret's data.            *)
(***************************************************************************)
EXTENDS Integers, Sequences, FiniteSets, TLC

VARIABLES
    store,      \* the object under the key, as the API server holds it
    rev,        \* the API server's revision counter (last resourceVersion issued)
    pc,         \* position of CreateOrUpdate: idle, get, create, loopget, update, done
    desired,    \* argument s
    equal,      \* argument equal (name of the EqualityFunc)
    mutate,     \* argument mutate (name of the MutateFunc)
    current,    \* local variable current
    fetched,    \* what the last c.Get inside the retry closure returned
    steps,      \* backoff.Steps left in retry.RetryOnConflict
    err,        \* error of the last store call ("OK" for nil)
    result,     \* what CreateOrUpdate returned: "nil" or the wrapping message
    gets,       \* c.Get calls issued by the running / last call
    creates,    \* c.Create calls issued by the running / last call
    updates,    \* c.Update calls issued by the running / last call
    conflicts,  \* updates of this call the store rejected with a conflict
    dirty,      \* another writer wrote since the last c.Get of the retry closure
    quiet,      \* how the last call returned nil ("noop", "created", "updated") while no
                \* other writer wrote since; "no" otherwise
    second,     \* this call repeats a call that returned nil, with the same arguments and
                \* no other writer since: how that call had returned nil; "no" otherwise
    node,       \* nodeResRequirements
    common,     \* commonResRequirements
    defaults,   \* defaultRequirements
    resolved,   \* what newResourceRequirements returned
    fpSecret,   \* the secret GetDataSHA256 reads: whether it exists, and its Data
    fpPc,       \* position of GetDataSHA256: idle, get, hash, keys, sort, concat, done
    fpErr,      \* error of Get ("OK" for nil)
    sec,        \* sec.Data
    dataHashes, \* local variable dataHashes
    sortedKeys, \* local variable sortedKeys
    ranged,     \* the keys in the order the range over dataHashes visited them
    hash,       \* local variable hash, the string returned
    fpPrev      \* the previous call: the data it read, its visiting order, its result

recVars == <<store, rev, pc, desired, equal, mutate, current, fetched, steps, err,
             result, gets, creates, updates, conflicts, dirty, quiet, second>>
resVars == <<node, common, defaults, resolved>>
fpVars == <<fpSecret, fpPc, fpErr, sec, dataHashes, sortedKeys, ranged, hash, fpPrev>>
vars == <<store, rev, pc, desired, equal, mutate, current, fetched, steps, err,
          result, gets, creates, updates, conflicts, dirty, quiet, second,
          node, common, defaults, resolved,
          fpSecret, fpPc, fpErr, sec, dataHashes, sortedKeys, ranged, hash, fpPrev>>

----------------------------------------------------------------------------
(* Bounds *)

\* Other writers stop once the server has issued this many revisions.
MaxRev == 6

\* retry.DefaultRetry: Steps 5, Duration 10ms, Factor 1.0, Jitter 0.1.
RetrySteps == 5

\* Quantities range over 0 .. MaxQuantity; 0 is the zero quantity, which is
\* also what a missing entry of a ResourceList reads as.
MaxQuantity == 2

\* The secrets GetDataSHA256 reads hold at most this many data keys.
MaxKeys == 2

\* sha256.Size, the length of the [32]byte a digest is.
DigestSize == 32

----------------------------------------------------------------------------
(* Secrets *)

\* A map field is nil, empty but allocated, or holds entries.
DataVals == {"nil", "empty", "d1"}
AnnVals == {"nil", "empty", "a1"}
\* A field no MutateFunc selects (labels, owner references, type, ...).
LabelVals == {"l0", "l1"}

\* JSON encoding drops an empty map (omitempty): the server hands back nil.
Norm(m) == IF m = "empty" THEN "nil" ELSE m

NoObject == [exists |-> FALSE, data |-> "nil", ann |-> "nil", labels |-> "l0", rv |-> 0]

\* current := &corev1.Secret{}
EmptySecret == [exists |-> TRUE, data |-> "nil", ann |-> "nil", labels |-> "l0", rv |-> 0]

\* The objects callers hand to CreateOrUpdate: no resourceVersion.
DesiredSecrets ==
    {[exists |-> TRUE, data |-> d, ann |-> a, labels |-> "l0", rv |-> 0] :
        d \in DataVals, a \in AnnVals}

\* What the server can hold under the key.
StoredContents ==
    {[data |-> Norm(d), ann |-> Norm(a), labels |-> l] :
        d \in DataVals, a \in AnnVals, l \in LabelVals}

Content(o) == [data |-> o.data, ann |-> o.ann, labels |-> o.labels]

\* The object as the server persists it under a new revision.
Stored(o, r) ==
    [exists |-> TRUE, data |-> Norm(o.data), ann |-> Norm(o.ann),
     labels |-> o.labels, rv |-> r]

----------------------------------------------------------------------------
(* The store's answers.  "Other" is any failure that is none of not found,  *)
(* already exists and conflict; it can happen on every call.                *)

GetOutcomes(st) == {"Other"} \cup (IF st.exists THEN {"OK"} ELSE {"NotFound"})

CreateOutcomes(st) == {"Other"} \cup (IF st.exists THEN {"AlreadyExists"} ELSE {"OK"})

UpdateOutcomes(st, o) ==
    {"Other"} \cup
    (IF ~st.exists THEN {"NotFound"}
     ELSE IF o.rv # st.rv THEN {"Conflict"}
     ELSE {"OK"})

----------------------------------------------------------------------------
(* Equality and mutation functions *)

StrictDeepEqual(x, y) == x = y

\* equality.Semantic.DeepEqual on maps: nil and empty maps are equal.
SemanticDeepEqual(x, y) == Norm(x) = Norm(y)

AnnotationsAndDataEqual(cur, des) ==
    SemanticDeepEqual(cur.ann, des.ann) /\ SemanticDeepEqual(cur.data, des.data)

DataEqual(cur, des) == SemanticDeepEqual(cur.data, des.data)

MutateAnnotationsAndDataOnly(cur, des) ==
    [cur EXCEPT !.ann = des.ann, !.data = des.data]

MutateDataCopyAll(cur, des) == [cur EXCEPT !.ann = des.ann, !.data = des.data]

MutateDataOnly(cur, des) == [cur EXCEPT !.data = des.data]

EqualityFuncs == {"AnnotationsAndDataEqual", "DataEqual"}
MutateFuncs == {"MutateAnnotationsAndDataOnly", "MutateDataOnly"}

ApplyEqual(f, cur, des) ==
    IF f = "AnnotationsAndDataEqual" THEN AnnotationsAndDataEqual(cur, des)
    ELSE DataEqual(cur, des)

ApplyMutate(f, cur, des) ==
    IF f = "MutateAnnotationsAndDataOnly" THEN MutateAnnotationsAndDataOnly(cur, des)
    ELSE MutateDataOnly(cur, des)

----------------------------------------------------------------------------
(* CreateOrUpdate *)

\* return: the locals die with the call.
Return(r, how) ==
    /\ pc' = "done"
    /\ result' = r
    /\ current' = EmptySecret
    /\ fetched' = EmptySecret
    /\ steps' = 0
    /\ quiet' = how

\* A caller invokes CreateOrUpdate(ctx, c, s, equal, mutate).
Start(s, eq, mut) ==
    /\ pc \in {"idle", "done"}
    /\ rev < MaxRev
    /\ pc' = "get"
    /\ desired' = s
    /\ equal' = eq
    /\ mutate' = mut
    /\ current' = EmptySecret
    /\ fetched' = EmptySecret
    /\ steps' = 0
    /\ err' = "OK"
    /\ result' = "none"
    /\ gets' = 0
    /\ creates' = 0
    /\ updates' = 0
    /\ conflicts' = 0
    /\ dirty' = FALSE
    /\ second' = (IF pc = "done" /\ s = desired /\ eq = equal /\ mut = mutate
                   THEN quiet ELSE "no")
    /\ quiet' = "no"
    /\ UNCHANGED <<store, rev>>

\* if !equal(current, s)
NeedsUpdateAlways(eq, cur, des) == TRUE

NeedsUpdate(eq, cur, des) == ~ApplyEqual(eq, cur, des)

\* err := c.Get(ctx, key, current), and what follows it without a store call.
InitialGet ==
    /\ pc = "get"
    /\ \E e \in GetOutcomes(store) :
        /\ err' = e
        /\ gets' = gets + 1
        /\ IF e = "NotFound"
           THEN /\ pc' = "create"
                /\ UNCHANGED <<result, current, fetched, steps, quiet>>
           ELSE IF e # "OK"
           THEN Return("failed to get secret", "no")
           ELSE IF ~NeedsUpdate(equal, store, desired)
           THEN Return("nil", "noop")
           ELSE /\ pc' = "loopget"
                /\ current' = store
                /\ steps' = RetrySteps
                /\ UNCHANGED <<result, fetched, quiet>>
    /\ UNCHANGED <<store, rev, desired, equal, mutate, creates, updates, conflicts,
                   dirty, second>>

\* err = c.Create(ctx, s)
CreateResultTolerant(e) ==
    IF e \in {"OK", "AlreadyExists"} THEN "nil" ELSE "failed to create secret"

CreateResult(e) == IF e = "OK" THEN "nil" ELSE "failed to create secret"

Create ==
    /\ pc = "create"
    /\ \E e \in CreateOutcomes(store) :
        /\ err' = e
        /\ creates' = creates + 1
        /\ IF e = "OK"
           THEN /\ store' = Stored(desired, rev + 1)
                /\ rev' = rev + 1
           ELSE UNCHANGED <<store, rev>>
        /\ Return(CreateResult(e), IF CreateResult(e) = "nil" THEN "created" ELSE "no")
    /\ UNCHANGED <<desired, equal, mutate, gets, updates, conflicts, dirty, second>>

\* The retry closure's c.Get(ctx, key, current) and mutate(current, s).
LoopGet ==
    /\ pc = "loopget"
    /\ \E e \in GetOutcomes(store) :
        /\ err' = e
        /\ gets' = gets + 1
        /\ IF e = "OK"
           THEN /\ fetched' = store
                /\ current' = ApplyMutate(mutate, store, desired)
                /\ pc' = "update"
                /\ dirty' = FALSE
                /\ UNCHANGED <<result, steps, quiet>>
           ELSE /\ Return("failed to update secret", "no")
                /\ UNCHANGED dirty
    /\ UNCHANGED <<store, rev, desired, equal, mutate, creates, updates, conflicts, second>>

\* retry.RetryOnConflict / wait.ExponentialBackoff: a conflict is retried while
\* backoff.Steps is above 1.
RetryForever(e, n) == e = "Conflict"

RetryAnyError(e, n) == e # "OK" /\ n > 1

RetryAgain(e, n) == e = "Conflict" /\ n > 1

\* The retry closure's c.Update(ctx, current).
Update ==
    /\ pc = "update"
    /\ \E e \in UpdateOutcomes(store, current) :
        /\ err' = e
        /\ updates' = updates + 1
        /\ conflicts' = IF e = "Conflict" THEN conflicts + 1 ELSE conflicts
        /\ IF e = "OK"
           THEN /\ store' = Stored(current, rev + 1)
                /\ rev' = rev + 1
                /\ Return("nil", "updated")
           ELSE /\ UNCHANGED <<store, rev>>
                /\ IF RetryAgain(e, steps)
                   THEN /\ pc' = "loopget"
                        /\ steps' = steps - 1
                        /\ UNCHANGED <<result, current, fetched, quiet>>
                   ELSE Return("failed to update secret", "no")
    /\ UNCHANGED <<desired, equal, mutate, gets, creates, dirty, second>>

----------------------------------------------------------------------------
(* Other writers of the same key *)

Disturb ==
    /\ dirty' = TRUE
    /\ quiet' = "no"
    /\ second' = "no"
    /\ UNCHANGED <<pc, desired, equal, mutate, current, fetched, steps, err, result,
                   gets, creates, updates, conflicts>>

ExtUpdate(c) ==
    /\ store.exists
    /\ rev < MaxRev
    /\ c # Content(store)
    /\ store' = [exists |-> TRUE, data |-> c.data, ann |-> c.ann,
                 labels |-> c.labels, rv |-> rev + 1]
    /\ rev' = rev + 1
    /\ Disturb

ExtDelete ==
    /\ store.exists
    /\ rev < MaxRev
    /\ store' = NoObject
    /\ rev' = rev + 1
    /\ Disturb

ExtCreate(c) ==
    /\ ~store.exists
    /\ rev < MaxRev
    /\ store' = [exists |-> TRUE, data |-> c.data, ann |-> c.ann,
                 labels |-> c.labels, rv |-> rev + 1]
    /\ rev' = rev + 1
    /\ Disturb

----------------------------------------------------------------------------
(* Specification of the reconciler *)

\* A v1.ResourceRequirements read through Requests/Limits .Memory() and .Cpu().
NoRequirements == [reqMem |-> 0, limMem |-> 0, reqCPU |-> 0, limCPU |-> 0]

\* No call of the resolver has returned.
NoResult ==
    [by |-> "none", panicked |-> FALSE,
     Limits |-> [k \in {} |-> 0], Requests |-> [k \in {} |-> 0]]

\* map[string][]byte{}
EmptyData == [k \in {} |-> <<>>]

\* No call of GetDataSHA256 has been made.
NoCall == [valid |-> FALSE, err |-> "OK", data |-> EmptyData, order |-> <<>>, hash |-> <<>>]

FingerprintIdle ==
    /\ fpSecret = [exists |-> FALSE, data |-> EmptyData]
    /\ fpPc = "idle"
    /\ fpErr = "OK"
    /\ sec = EmptyData
    /\ dataHashes = EmptyData
    /\ sortedKeys = <<>>
    /\ ranged = <<>>
    /\ hash = <<>>
    /\ fpPrev = NoCall

ResolverIdle ==
    /\ node = NoRequirements
    /\ common = NoRequirements
    /\ defaults = NoRequirements
    /\ resolved = NoResult

ReconcilerInit ==
    /\ \/ store = NoObject
       \/ \E c \in StoredContents :
            store = [exists |-> TRUE, data |-> c.data, ann |-> c.ann,
                     labels |-> c.labels, rv |-> 1]
    /\ rev = store.rv
    /\ pc = "idle"
    /\ desired = EmptySecret
    /\ equal = "DataEqual"
    /\ mutate = "MutateDataOnly"
    /\ current = EmptySecret
    /\ fetched = EmptySecret
    /\ steps = 0
    /\ err = "OK"
    /\ result = "none"
    /\ gets = 0
    /\ creates = 0
    /\ updates = 0
    /\ conflicts = 0
    /\ dirty = FALSE
    /\ quiet = "no"
    /\ second = "no"

Init == ReconcilerInit /\ ResolverIdle /\ FingerprintIdle

CallStep == InitialGet \/ Create \/ LoopGet \/ Update

Next ==
    \/ \E s \in DesiredSecrets, eq \in EqualityFuncs, mut \in MutateFuncs :
          Start(s, eq, mut) /\ UNCHANGED <<resVars, fpVars>>
    \/ InitialGet /\ UNCHANGED <<resVars, fpVars>>
    \/ Create /\ UNCHANGED <<resVars, fpVars>>
    \/ LoopGet /\ UNCHANGED <<resVars, fpVars>>
    \/ Update /\ UNCHANGED <<resVars, fpVars>>
    \/ \E c \in StoredContents : ExtUpdate(c) /\ UNCHANGED <<resVars, fpVars>>
    \/ ExtDelete /\ UNCHANGED <<resVars, fpVars>>
    \/ \E c \in StoredContents : ExtCreate(c) /\ UNCHANGED <<resVars, fpVars>>

Spec == Init /\ [][Next]_vars

\* Every store call of a running CreateOrUpdate returns; other writers need not act.
FairSpec == Init /\ [][Next]_vars /\ WF_vars(CallStep /\ UNCHANGED <<resVars, fpVars>>)

----------------------------------------------------------------------------
(* Properties of CreateOrUpdate *)

Running == pc \in {"get", "create", "loopget", "update"}

\* C1: when the initial get succeeds and equal(current, desired) is true, the
\* call returns nil right after that get: one get, no create, no update, and
\* the stored object (data, annotations, other fields, revision) is unchanged.
NoopWhenEqual ==
    [][(pc = "get" /\ pc' # "get" /\ err' = "OK" /\ ApplyEqual(equal, store, desired))
        => /\ pc' = "done"
           /\ result' = "nil"
           /\ gets' = 1
           /\ creates' = 0
           /\ updates' = 0
           /\ store' = store
           /\ rev' = rev]_vars

\* A call returned nil after its initial get alone.
NoopWitness ==
    /\ pc = "done"
    /\ result = "nil"
    /\ store.exists
    /\ gets = 1
    /\ creates = 0
    /\ updates = 0

\* C2 as stated: after a call that returned nil, and with no other writer, a
\* second call with the same desired object and the same functions issues no
\* create and no update, whatever the pair of functions.
TwoCallIdempotenceAnyPair == second # "no" => (creates = 0 /\ updates = 0)

\* C2 as amended: the second call issues no create and no update, except under
\* AnnotationsAndDataEqual with MutateDataOnly while the stored annotations
\* differ from the desired ones (the merge never copies what the equality compares).
TwoCallIdempotence ==
    second # "no" =>
        \/ creates = 0 /\ updates = 0
        \/ /\ equal = "AnnotationsAndDataEqual"
           /\ mutate = "MutateDataOnly"
           /\ store.exists
           /\ Norm(store.ann) # Norm(desired.ann)

\* A second call, after a first one that updated the object, has returned
\* without a write.
TwoCallWitness ==
    /\ second = "updated"
    /\ pc = "done"
    /\ result = "nil"
    /\ gets = 1
    /\ creates = 0
    /\ updates = 0

\* C3: an update the store accepts writes merge(c, desired), c being what the
\* last re-fetch returned and still the stored object (no other writer wrote
\* since): data is the desired data, annotations are the desired ones under
\* MutateAnnotationsAndDataOnly and c's under MutateDataOnly, every other
\* field is c's, and the revision sent is c's.
ConflictConvergence ==
    [][(pc = "update" /\ pc' = "done" /\ result' = "nil")
        => /\ ~dirty
           /\ fetched = store
           /\ current.rv = fetched.rv
           /\ store'.exists
           /\ store'.data = Norm(desired.data)
           /\ store'.ann = (IF mutate = "MutateDataOnly" THEN fetched.ann
                            ELSE Norm(desired.ann))
           /\ store'.labels = fetched.labels
           /\ store'.rv = rev + 1]_vars

\* An update was accepted after an earlier one of the same call was rejected,
\* on an object whose annotations and labels are not the desired ones.
ConvergenceWitness ==
    /\ pc = "done"
    /\ result = "nil"
    /\ conflicts >= 1
    /\ updates = conflicts + 1
    /\ mutate = "MutateDataOnly"
    /\ store.labels # desired.labels
    /\ store.ann # Norm(desired.ann)

BoundedRetryInv ==
    /\ creates <= 1
    /\ updates <= RetrySteps
    /\ creates = 1 => (updates = 0 /\ gets = 1)
    /\ pc = "update" => gets = updates + 2
    /\ updates > 0 => gets \in {updates + 1, updates + 2}
    /\ (pc = "done" /\ conflicts = RetrySteps)
          => (result = "failed to update secret" /\ err = "Conflict")

\* C4: every call terminates; it issues at most one create, or at most
\* RetrySteps updates each preceded by its own get; when all RetrySteps updates
\* are rejected with a conflict the call returns the conflict error.
BoundedRetry == []BoundedRetryInv /\ (Running ~> pc = "done")

\* The retry budget was spent on conflicts.
ExhaustedWitness ==
    /\ pc = "done"
    /\ conflicts = RetrySteps
    /\ updates = RetrySteps
    /\ gets = RetrySteps + 1
    /\ result = "failed to update secret"

\* C5: an initial get failing with anything but not found, a re-fetch failing
\* with anything (not found included) and an update failing with anything but
\* a conflict each end the call with an error right after that store call; a
\* call that returned issues no further store call.
OnlyConflictRecovered ==
    [][/\ (pc = "get" /\ gets' = gets + 1 /\ err' \notin {"OK", "NotFound"})
            => (pc' = "done" /\ result' = "failed to get secret"
                /\ creates' = 0 /\ updates' = 0)
       /\ (pc = "loopget" /\ gets' = gets + 1 /\ err' # "OK")
            => (pc' = "done" /\ result' = "failed to update secret")
       /\ (pc = "update" /\ updates' = updates + 1 /\ err' \notin {"OK", "Conflict"})
            => (pc' = "done" /\ result' = "failed to update secret")
       /\ (pc = "done" /\ pc' = "done")
            => UNCHANGED <<gets, creates, updates, result>>]_vars

\* The object was deleted by another writer before a re-fetch: the call ended there.
AbortWitness ==
    /\ pc = "done"
    /\ err = "NotFound"
    /\ result = "failed to update secret"
    /\ gets = updates + 2
    /\ conflicts >= 1

\* C6 as stated: a create that fails with already exists makes the call return nil.
CreateRaceIsSuccess ==
    (pc = "done" /\ creates = 1 /\ err = "AlreadyExists") => result = "nil"

\* C6 as amended: a create that fails with already exists makes the call return
\* the wrapped create error, after one get and one create and no update.
CreateRaceIsError ==
    (pc = "done" /\ creates = 1 /\ err = "AlreadyExists")
        => (result = "failed to create secret" /\ gets = 1 /\ updates = 0)

\* Another writer created the object between the get and the create.
CreateRaceWitness ==
    /\ pc = "done"
    /\ creates = 1
    /\ err = "AlreadyExists"
    /\ store.exists

----------------------------------------------------------------------------
(* newResourceRequirements *)

Quantities == 0 .. MaxQuantity

Requirements ==
    [reqMem : Quantities, limMem : Quantities, reqCPU : Quantities, limCPU : Quantities]

\* The built-in defaults, in units of the model; the source names them and
\* sets no cpu limit.
DefaultESMemoryLimit == 2
DefaultESMemoryRequest == 1
DefaultESCpuRequest == 1
DefaultESProxyMemoryLimit == 1
DefaultESProxyMemoryRequest == 1
DefaultESProxyCPURequest == 1

defaultResources(component) ==
    IF component = "proxy"
    THEN [reqMem |-> DefaultESProxyMemoryRequest, limMem |-> DefaultESProxyMemoryLimit,
          reqCPU |-> DefaultESProxyCPURequest, limCPU |-> 0]
    ELSE [reqMem |-> DefaultESMemoryRequest, limMem |-> DefaultESMemoryLimit,
          reqCPU |-> DefaultESCpuRequest, limCPU |-> 0]

\* Default tables other callers could pass: every entry present or missing.
GenericDefaults ==
    [reqMem : {0, 1}, limMem : {0, MaxQuantity}, reqCPU : {0, 1}, limCPU : {0, MaxQuantity}]

\* resource.Quantity.IsZero
IsZero(q) == q = 0

\* *resource.Quantity: nil, or a pointer to a quantity.
Nil == <<>>
Ptr(q) == <<q>>

MemoryPairNoDefaultLimit(n, c, d) ==
    IF IsZero(c.reqMem) /\ IsZero(c.limMem)
    THEN IF IsZero(n.reqMem) /\ IsZero(n.limMem)
         THEN [request |-> Ptr(d.reqMem), limit |-> Ptr(0)]
         ELSE IF IsZero(n.reqMem)
         THEN [request |-> Ptr(n.limMem), limit |-> Ptr(n.limMem)]
         ELSE IF IsZero(n.limMem)
         THEN [request |-> Ptr(n.reqMem), limit |-> Ptr(n.reqMem)]
         ELSE [request |-> Ptr(n.reqMem), limit |-> Ptr(n.limMem)]
    ELSE [request |-> IF IsZero(n.reqMem)
                      THEN (IF IsZero(c.reqMem) THEN Ptr(c.limMem) ELSE Ptr(c.reqMem))
                      ELSE Ptr(n.reqMem),
          limit |-> IF IsZero(n.limMem)
                    THEN (IF IsZero(c.limMem) THEN Ptr(c.reqMem) ELSE Ptr(c.limMem))
                    ELSE Ptr(n.limMem)]

MemoryPairClusterFirst(n, c, d) ==
    IF IsZero(c.reqMem) /\ IsZero(c.limMem)
    THEN IF IsZero(n.reqMem) /\ IsZero(n.limMem)
         THEN [request |-> Ptr(d.reqMem), limit |-> Ptr(d.limMem)]
         ELSE IF IsZero(n.reqMem)
         THEN [request |-> Ptr(n.limMem), limit |-> Ptr(n.limMem)]
         ELSE IF IsZero(n.limMem)
         THEN [request |-> Ptr(n.reqMem), limit |-> Ptr(n.reqMem)]
         ELSE [request |-> Ptr(n.reqMem), limit |-> Ptr(n.limMem)]
    ELSE [request |-> IF IsZero(c.reqMem)
                      THEN (IF IsZero(n.reqMem) THEN Ptr(c.limMem) ELSE Ptr(n.reqMem))
                      ELSE Ptr(c.reqMem),
          limit |-> IF IsZero(n.limMem)
                    THEN (IF IsZero(c.limMem) THEN Ptr(c.reqMem) ELSE Ptr(c.limMem))
                    ELSE Ptr(n.limMem)]

\* requestMem and limitMem.
MemoryPair(n, c, d) ==
    IF IsZero(c.reqMem) /\ IsZero(c.limMem)
    THEN IF IsZero(n.reqMem) /\ IsZero(n.limMem)
         THEN [request |-> Ptr(d.reqMem), limit |-> Ptr(d.limMem)]
         ELSE IF IsZero(n.reqMem)
         THEN [request |-> Ptr(n.limMem), limit |-> Ptr(n.limMem)]
         ELSE IF IsZero(n.limMem)
         THEN [request |-> Ptr(n.reqMem), limit |-> Ptr(n.reqMem)]
         ELSE [request |-> Ptr(n.reqMem), limit |-> Ptr(n.limMem)]
    ELSE [request |-> IF IsZero(n.reqMem)
                      THEN (IF IsZero(c.reqMem) THEN Ptr(c.limMem) ELSE Ptr(c.reqMem))
                      ELSE Ptr(n.reqMem),
          limit |-> IF IsZero(n.limMem)
                    THEN (IF IsZero(c.limMem) THEN Ptr(c.reqMem) ELSE Ptr(c.limMem))
                    ELSE Ptr(n.limMem)]

CPUPairZeroLimit(n, c, d) ==
    IF IsZero(c.reqCPU) /\ IsZero(c.limCPU)
    THEN IF IsZero(n.reqCPU) /\ IsZero(n.limCPU)
         THEN [request |-> Ptr(d.reqCPU), limit |-> Nil]
         ELSE IF IsZero(n.reqCPU)
         THEN [request |-> Ptr(n.limCPU), limit |-> Ptr(n.limCPU)]
         ELSE IF IsZero(n.limCPU)
         THEN [request |-> Ptr(n.reqCPU), limit |-> Nil]
         ELSE [request |-> Ptr(n.reqCPU), limit |-> Ptr(n.limCPU)]
    ELSE [request |-> IF IsZero(n.reqCPU)
                      THEN (IF IsZero(c.reqCPU) THEN Ptr(c.limCPU) ELSE Ptr(c.reqCPU))
                      ELSE Ptr(n.reqCPU),
          limit |-> IF IsZero(n.limCPU) THEN Ptr(c.limCPU) ELSE Ptr(n.limCPU)]

\* requestCPU and limitCPU.
CPUPair(n, c, d) ==
    IF IsZero(c.reqCPU) /\ IsZero(c.limCPU)
    THEN IF IsZero(n.reqCPU) /\ IsZero(n.limCPU)
         THEN [request |-> Ptr(d.reqCPU), limit |-> Nil]
         ELSE IF IsZero(n.reqCPU)
         THEN [request |-> Ptr(n.limCPU), limit |-> Ptr(n.limCPU)]
         ELSE IF IsZero(n.limCPU)
         THEN [request |-> Ptr(n.reqCPU), limit |-> Nil]
         ELSE [request |-> Ptr(n.reqCPU), limit |-> Ptr(n.limCPU)]
    ELSE [request |-> IF IsZero(n.reqCPU)
                      THEN (IF IsZero(c.reqCPU) THEN Ptr(c.limCPU) ELSE Ptr(c.reqCPU))
                      ELSE Ptr(n.reqCPU),
          limit |-> IF IsZero(n.limCPU)
                    THEN (IF ~IsZero(c.limCPU) THEN Ptr(c.limCPU) ELSE Nil)
                    ELSE Ptr(n.limCPU)]

\* The returned v1.ResourceRequirements; dereferencing nil panics.
Package(mem, cpu) ==
    IF cpu.limit = Nil
    THEN IF mem.limit = Nil \/ cpu.request = Nil \/ mem.request = Nil
         THEN [panicked |-> TRUE, Limits |-> [k \in {} |-> 0], Requests |-> [k \in {} |-> 0]]
         ELSE [panicked |-> FALSE,
               Limits |-> [k \in {"memory"} |-> mem.limit[1]],
               Requests |-> [k \in {"cpu", "memory"} |->
                               IF k = "cpu" THEN cpu.request[1] ELSE mem.request[1]]]
    ELSE IF mem.limit = Nil \/ cpu.request = Nil \/ mem.request = Nil
         THEN [panicked |-> TRUE, Limits |-> [k \in {} |-> 0], Requests |-> [k \in {} |-> 0]]
         ELSE [panicked |-> FALSE,
               Limits |-> [k \in {"cpu", "memory"} |->
                             IF k = "cpu" THEN cpu.limit[1] ELSE mem.limit[1]],
               Requests |-> [k \in {"cpu", "memory"} |->
                               IF k = "cpu" THEN cpu.request[1] ELSE mem.request[1]]]

newResourceRequirements(n, c, d) == Package(MemoryPair(n, c, d), CPUPair(n, c, d))

Returned(by, r) ==
    [by |-> by, panicked |-> r.panicked, Limits |-> r.Limits, Requests |-> r.Requests]

\* newESResourceRequirements(nodeResRequirements, commonResRequirements)
NewESResourceRequirements ==
    /\ resolved.by = "none"
    /\ defaults' = defaultResources("elasticsearch")
    /\ resolved' = Returned("newESResourceRequirements",
                            newResourceRequirements(node, common, defaults'))
    /\ UNCHANGED <<node, common>>

\* newESProxyResourceRequirements(nodeResRequirements, commonResRequirements)
NewESProxyResourceRequirements ==
    /\ resolved.by = "none"
    /\ defaults' = defaultResources("proxy")
    /\ resolved' = Returned("newESProxyResourceRequirements",
                            newResourceRequirements(node, common, defaults'))
    /\ UNCHANGED <<node, common>>

\* newResourceRequirements called with another default table.
NewResourceRequirements(d) ==
    /\ resolved.by = "none"
    /\ defaults' = d
    /\ resolved' = Returned("newResourceRequirements",
                            newResourceRequirements(node, common, d))
    /\ UNCHANGED <<node, common>>

ReconcilerIdle == ReconcilerInit /\ store = NoObject

ResolverInit ==
    /\ node \in Requirements
    /\ common \in Requirements
    /\ defaults = NoRequirements
    /\ resolved = NoResult

ResolverNext ==
    \/ NewESResourceRequirements /\ UNCHANGED <<recVars, fpVars>>
    \/ NewESProxyResourceRequirements /\ UNCHANGED <<recVars, fpVars>>
    \/ \E d \in GenericDefaults : NewResourceRequirements(d) /\ UNCHANGED <<recVars, fpVars>>

ResolverStart == ResolverInit /\ ReconcilerIdle /\ FingerprintIdle

ResolverSpec == ResolverStart /\ [][ResolverNext]_vars

----------------------------------------------------------------------------
(* Properties of newResourceRequirements *)

Called == resolved.by # "none"

\* The ladder of rules 1b, 1c, 1d and 2 for one dimension: workload request nr
\* and limit nl, cluster request cr and limit cl, at least one of them set.
LadderRequest(nr, nl, cr, cl) ==
    IF cr = 0 /\ cl = 0
    THEN (IF nr = 0 THEN nl ELSE nr)
    ELSE (IF nr # 0 THEN nr ELSE IF cr # 0 THEN cr ELSE cl)

LadderLimit(nr, nl, cr, cl) ==
    IF cr = 0 /\ cl = 0
    THEN (IF nl = 0 THEN nr ELSE nl)
    ELSE (IF nl # 0 THEN nl ELSE IF cl # 0 THEN cl ELSE cr)

\* C7: the memory request and limit returned are the defaults when no tier
\* sets memory; the workload limit twice, the workload request twice, or the
\* workload pair, when the cluster sets none; and otherwise request = workload
\* request, else cluster request, else cluster limit, and limit = workload
\* limit, else cluster limit, else cluster request.
MemoryLadder ==
    Called =>
        LET nr == node.reqMem
            nl == node.limMem
            cr == common.reqMem
            cl == common.limMem
            req == resolved.Requests["memory"]
            lim == resolved.Limits["memory"]
        IN  /\ (cr = 0 /\ cl = 0 /\ nr = 0 /\ nl = 0)
                 => (req = defaults.reqMem /\ lim = defaults.limMem)
            /\ (cr = 0 /\ cl = 0 /\ nr = 0 /\ nl # 0) => (req = nl /\ lim = nl)
            /\ (cr = 0 /\ cl = 0 /\ nr # 0 /\ nl = 0) => (req = nr /\ lim = nr)
            /\ (cr = 0 /\ cl = 0 /\ nr # 0 /\ nl # 0) => (req = nr /\ lim = nl)
            /\ (cr # 0 \/ cl # 0)
                 => /\ req = (IF nr # 0 THEN nr ELSE IF cr # 0 THEN cr ELSE cl)
                    /\ lim = (IF nl # 0 THEN nl ELSE IF cl # 0 THEN cl ELSE cr)

\* The workload sets only a memory limit, the cluster only a memory request,
\* and each is what came out.
MemoryLadderWitness ==
    /\ Called
    /\ node.reqMem = 0
    /\ node.limMem = 2
    /\ common.reqMem = 1
    /\ common.limMem = 0
    /\ resolved.Requests["memory"] = 1
    /\ resolved.Limits["memory"] = 2

\* C8: when at least one of the four cpu values is set, the cpu request and
\* limit returned are what the memory ladder yields on the same values (an
\* unset limit filled from the request included); with none set, the default
\* cpu request and no cpu limit.
CPULadderAsMemory ==
    Called =>
        LET nr == node.reqCPU
            nl == node.limCPU
            cr == common.reqCPU
            cl == common.limCPU
        IN  IF nr = 0 /\ nl = 0 /\ cr = 0 /\ cl = 0
            THEN /\ resolved.Requests["cpu"] = defaults.reqCPU
                 /\ "cpu" \notin DOMAIN resolved.Limits
            ELSE /\ resolved.Requests["cpu"] = LadderRequest(nr, nl, cr, cl)
                 /\ "cpu" \in DOMAIN resolved.Limits
                 /\ resolved.Limits["cpu"] = LadderLimit(nr, nl, cr, cl)

\* C9: the result always has a memory limit, a memory request and a cpu
\* request; it has a cpu limit exactly when limitCPU was set, and then that
\* limit is not zero; no call panics.
OutputPackaging ==
    Called =>
        /\ ~resolved.panicked
        /\ DOMAIN resolved.Requests = {"cpu", "memory"}
        /\ "memory" \in DOMAIN resolved.Limits
        /\ DOMAIN resolved.Limits \subseteq {"cpu", "memory"}
        /\ "cpu" \in DOMAIN resolved.Limits <=> CPUPair(node, common, defaults).limit # Nil
        /\ "cpu" \in DOMAIN resolved.Limits => resolved.Limits["cpu"] # 0

\* Only a cluster cpu request is set, the default table is empty: the result
\* has no cpu limit, and zero memory entries.
PackagingWitness ==
    /\ Called
    /\ node = NoRequirements
    /\ common = [reqMem |-> 0, limMem |-> 0, reqCPU |-> 1, limCPU |-> 0]
    /\ defaults = NoRequirements
    /\ DOMAIN resolved.Limits = {"memory"}
    /\ resolved.Requests["cpu"] = 1

AnySet(nr, nl, cr, cl) == nr # 0 \/ nl # 0 \/ cr # 0 \/ cl # 0

BuiltIn == resolved.by \in {"newESResourceRequirements", "newESProxyResourceRequirements"}

CPULimitSet == "cpu" \in DOMAIN resolved.Limits /\ resolved.Limits["cpu"] # 0

\* C10 as stated, with the built-in tables: per dimension, a tier that sets a
\* request or limit makes at least one of the resolved request and limit set,
\* and with no tier setting anything both the request and the limit are set.
QuantityPairBothDefaults ==
    (Called /\ BuiltIn) =>
        /\ AnySet(node.reqMem, node.limMem, common.reqMem, common.limMem)
             => (resolved.Requests["memory"] # 0 \/ resolved.Limits["memory"] # 0)
        /\ ~AnySet(node.reqMem, node.limMem, common.reqMem, common.limMem)
             => (resolved.Requests["memory"] # 0 /\ resolved.Limits["memory"] # 0)
        /\ AnySet(node.reqCPU, node.limCPU, common.reqCPU, common.limCPU)
             => (resolved.Requests["cpu"] # 0 \/ CPULimitSet)
        /\ ~AnySet(node.reqCPU, node.limCPU, common.reqCPU, common.limCPU)
             => (resolved.Requests["cpu"] # 0 /\ CPULimitSet)

\* C10 as amended: as stated for memory; for cpu, with no tier setting
\* anything the request is set and there is no limit.
QuantityPairInvariant ==
    (Called /\ BuiltIn) =>
        /\ AnySet(node.reqMem, node.limMem, common.reqMem, common.limMem)
             => (resolved.Requests["memory"] # 0 \/ resolved.Limits["memory"] # 0)
        /\ ~AnySet(node.reqMem, node.limMem, common.reqMem, common.limMem)
             => (resolved.Requests["memory"] # 0 /\ resolved.Limits["memory"] # 0)
        /\ AnySet(node.reqCPU, node.limCPU, common.reqCPU, common.limCPU)
             => (resolved.Requests["cpu"] # 0 \/ CPULimitSet)
        /\ ~AnySet(node.reqCPU, node.limCPU, common.reqCPU, common.limCPU)
             => (resolved.Requests["cpu"] # 0 /\ "cpu" \notin DOMAIN resolved.Limits)

\* No tier sets anything and the elasticsearch defaults came out.
QuantityPairWitness ==
    /\ resolved.by = "newESResourceRequirements"
    /\ node = NoRequirements
    /\ common = NoRequirements
    /\ resolved.Requests["memory"] = DefaultESMemoryRequest
    /\ resolved.Limits["memory"] = DefaultESMemoryLimit
    /\ resolved.Requests["cpu"] = DefaultESCpuRequest

\* Each tier is consistent on its own: a request above the limit of the same
\* tier occurs in no tier that sets both.
TierConsistent(r, l) == (r # 0 /\ l # 0) => r <= l

\* C13: when every tier is consistent on its own (workload, cluster and
\* defaults), the memory request returned is at most the memory limit, and
\* the cpu request is at most the cpu limit whenever a cpu limit is returned,
\* also when request and limit come from different tiers.
RequestWithinLimit ==
    (/\ Called
     /\ TierConsistent(node.reqMem, node.limMem)
     /\ TierConsistent(common.reqMem, common.limMem)
     /\ defaults.reqMem <= defaults.limMem
     /\ TierConsistent(node.reqCPU, node.limCPU)
     /\ TierConsistent(common.reqCPU, common.limCPU))
        => /\ resolved.Requests["memory"] <= resolved.Limits["memory"]
           /\ "cpu" \in DOMAIN resolved.Limits
                => resolved.Requests["cpu"] <= resolved.Limits["cpu"]

----------------------------------------------------------------------------
(* GetDataSHA256 *)

\* Strings and []byte are sequences of bytes.  The key names "a", "ab", "b".
FpKeys == {<<1>>, <<1, 2>>, <<2>>}

\* Values of a data key; the empty value included.
FpBytes == {<<>>, <<1>>, <<2>>}

\* The Data a secret can hold.
DataMaps ==
    UNION {[ks -> FpBytes] : ks \in {s \in SUBSET FpKeys : Cardinality(s) <= MaxKeys}}

\* The orders in which a range over a map with key set S can visit its keys.
RangeOrders(S) ==
    {s \in [1 .. Cardinality(S) -> S] :
        \A i, j \in 1 .. Cardinality(S) : i # j => s[i] # s[j]}

\* a < b on Go strings: bytewise lexicographic.
RECURSIVE StringLess(_, _)
StringLess(a, b) ==
    IF a = <<>> THEN b # <<>>
    ELSE IF b = <<>> THEN FALSE
    ELSE IF a[1] # b[1] THEN a[1] < b[1]
    ELSE StringLess(Tail(a), Tail(b))

RECURSIVE Insert(_, _)
Insert(k, s) ==
    IF s = <<>> THEN <<k>>
    ELSE IF StringLess(k, Head(s)) THEN <<k>> \o s
    ELSE <<Head(s)>> \o Insert(k, Tail(s))

NoSort(s) == s

\* sort.Strings (an insertion sort on slices this short).
RECURSIVE SortStrings(_)
SortStrings(s) == IF s = <<>> THEN <<>> ELSE Insert(Head(s), SortStrings(Tail(s)))

RECURSIVE SumBytes(_)
SumBytes(b) == IF b = <<>> THEN 0 ELSE Head(b) + SumBytes(Tail(b))

\* sha256.Sum256: DigestSize bytes, the same for the same input and different
\* for the different inputs of the model (a stand-in for the real digest).
Sum256(b) == [i \in 1 .. DigestSize |-> (11 * Len(b) + 7 * SumBytes(b) + i) % 256]

HashEntryRaw(data) == data

\* dataHashes[key] = sha256.Sum256([]byte(data))
HashEntry(data) == Sum256(data)

AppendKeyAndDigest(h, key, hashes) == h \o key \o hashes[key]

\* hash = fmt.Sprintf("%s%s", hash, dataHashes[key]): %s writes the bytes of
\* a byte array as they are.
AppendDigest(h, key, hashes) == h \o hashes[key]

\* for _, key := range sortedKeys
RECURSIVE Concat(_, _, _)
Concat(h, keys, hashes) ==
    IF keys = <<>> THEN h
    ELSE Concat(AppendDigest(h, Head(keys), hashes), Tail(keys), hashes)

\* A caller invokes GetDataSHA256(ctx, c, key); hash := "".
FpStart ==
    /\ fpPc = "idle" \/ (fpPc = "done" /\ ~fpPrev.valid)
    /\ fpPrev' = IF fpPc = "done"
                 THEN [valid |-> TRUE, err |-> fpErr, data |-> sec,
                       order |-> ranged, hash |-> hash]
                 ELSE fpPrev
    /\ fpPc' = "get"
    /\ fpErr' = "OK"
    /\ sec' = EmptyData
    /\ dataHashes' = EmptyData
    /\ sortedKeys' = <<>>
    /\ ranged' = <<>>
    /\ hash' = <<>>
    /\ UNCHANGED fpSecret

\* sec, err := Get(ctx, c, key); on an error hash is returned as it is.
FpGet ==
    /\ fpPc = "get"
    /\ \E e \in GetOutcomes(fpSecret) :
        /\ fpErr' = e
        /\ IF e = "OK"
           THEN /\ sec' = fpSecret.data
                /\ fpPc' = "hash"
           ELSE /\ sec' = EmptyData
                /\ fpPc' = "done"
    /\ UNCHANGED <<fpSecret, dataHashes, sortedKeys, ranged, hash, fpPrev>>

\* for key, data := range sec.Data
FpHashValues ==
    /\ fpPc = "hash"
    /\ dataHashes' = [k \in DOMAIN sec |-> HashEntry(sec[k])]
    /\ fpPc' = "keys"
    /\ UNCHANGED <<fpSecret, fpErr, sec, sortedKeys, ranged, hash, fpPrev>>

\* for key := range dataHashes: the order is the runtime's choice.
FpRangeKeys(order) ==
    /\ fpPc = "keys"
    /\ sortedKeys' = order
    /\ ranged' = order
    /\ fpPc' = "sort"
    /\ UNCHANGED <<fpSecret, fpErr, sec, dataHashes, hash, fpPrev>>

\* sort.Strings(sortedKeys)
FpSort ==
    /\ fpPc = "sort"
    /\ sortedKeys' = SortStrings(sortedKeys)
    /\ fpPc' = "concat"
    /\ UNCHANGED <<fpSecret, fpErr, sec, dataHashes, ranged, hash, fpPrev>>

\* The loop over sortedKeys, and return hash.
FpConcat ==
    /\ fpPc = "concat"
    /\ hash' = Concat(hash, sortedKeys, dataHashes)
    /\ fpPc' = "done"
    /\ UNCHANGED <<fpSecret, fpErr, sec, dataHashes, sortedKeys, ranged, fpPrev>>

\* Between two calls the secret is given other data.
FpRewrite(d) ==
    /\ fpPc = "done"
    /\ ~fpPrev.valid
    /\ d # fpSecret.data
    /\ fpSecret' = [exists |-> TRUE, data |-> d]
    /\ UNCHANGED <<fpPc, fpErr, sec, dataHashes, sortedKeys, ranged, hash, fpPrev>>

FingerprintInit ==
    /\ \/ fpSecret = [exists |-> FALSE, data |-> EmptyData]
       \/ \E d \in DataMaps : fpSecret = [exists |-> TRUE, data |-> d]
    /\ fpPc = "idle"
    /\ fpErr = "OK"
    /\ sec = EmptyData
    /\ dataHashes = EmptyData
    /\ sortedKeys = <<>>
    /\ ranged = <<>>
    /\ hash = <<>>
    /\ fpPrev = NoCall

FingerprintStart == FingerprintInit /\ ReconcilerIdle /\ ResolverIdle

FingerprintNext ==
    \/ FpStart /\ UNCHANGED <<recVars, resVars>>
    \/ FpGet /\ UNCHANGED <<recVars, resVars>>
    \/ FpHashValues /\ UNCHANGED <<recVars, resVars>>
    \/ \E order \in RangeOrders(DOMAIN dataHashes) :
          FpRangeKeys(order) /\ UNCHANGED <<recVars, resVars>>
    \/ FpSort /\ UNCHANGED <<recVars, resVars>>
    \/ FpConcat /\ UNCHANGED <<recVars, resVars>>
    \/ \E d \in DataMaps : FpRewrite(d) /\ UNCHANGED <<recVars, resVars>>

FingerprintSpec == FingerprintStart /\ [][FingerprintNext]_vars

----------------------------------------------------------------------------
(* Properties of GetDataSHA256 *)

\* Two calls have returned, both after a successful Get.
TwoFingerprints ==
    /\ fpPc = "done"
    /\ fpErr = "OK"
    /\ fpPrev.valid
    /\ fpPrev.err = "OK"

\* C11: two calls that read the same data return the same string whatever
\* the orders in which they visited the keys, because the digests are
\* concatenated over the keys in strictly increasing lexicographic order.
FingerprintOrderIndependent ==
    /\ (TwoFingerprints /\ fpPrev.data = sec) => hash = fpPrev.hash
    /\ (fpPc \in {"concat", "done"} /\ fpErr = "OK")
         => /\ Len(sortedKeys) = Cardinality(DOMAIN sec)
            /\ {sortedKeys[i] : i \in 1 .. Len(sortedKeys)} = DOMAIN sec
            /\ \A i \in 1 .. Len(sortedKeys) - 1 :
                 StringLess(sortedKeys[i], sortedKeys[i + 1])

\* Two calls read the same two keys with different values, visited them in
\* different orders, and returned the same string.
OrderWitness ==
    /\ TwoFingerprints
    /\ fpPrev.data = sec
    /\ Cardinality(DOMAIN sec) >= 2
    /\ \E k1, k2 \in DOMAIN sec : sec[k1] # sec[k2]
    /\ ranged # fpPrev.order
    /\ hash = fpPrev.hash

\* C12: the string returned is empty exactly when Get failed (not found
\* included) or the secret read has no data key; with at least one key, even
\* one whose value is empty, it is not empty.
EmptySentinel ==
    fpPc = "done" =>
        /\ hash = <<>> <=> (fpErr # "OK" \/ DOMAIN sec = {})
        /\ (fpErr = "OK" /\ DOMAIN sec # {}) => Len(hash) >= DigestSize

\* A secret whose only key has an empty value has a fingerprint that is not empty.
SentinelWitness ==
    /\ fpPc = "done"
    /\ fpErr = "OK"
    /\ DOMAIN sec = {<<1>>}
    /\ sec[<<1>>] = <<>>
    /\ hash # <<>>

\* The keys of d in increasing order, and its values in that order.
KeysInOrder(d) ==
    CHOOSE s \in RangeOrders(DOMAIN d) :
        \A i \in 1 .. Len(s) - 1 : StringLess(s[i], s[i + 1])

ValuesInKeyOrder(d) == [i \in 1 .. Cardinality(DOMAIN d) |-> d[KeysInOrder(d)[i]]]

\* d2 is d1 with two different values exchanged between two keys.
Swapped(d1, d2) ==
    /\ DOMAIN d1 = DOMAIN d2
    /\ \E k1, k2 \in DOMAIN d1 :
        /\ k1 # k2
        /\ d1[k1] # d1[k2]
        /\ d2[k1] = d1[k2]
        /\ d2[k2] = d1[k1]
        /\ \A k \in DOMAIN d1 \ {k1, k2} : d2[k] = d1[k]

\* C14: the string returned depends only on the values taken in the order of
\* their sorted keys: two secrets with the same values in that order, under
\* whatever key names, have the same fingerprint, and exchanging two
\* different values between two keys gives another fingerprint.
FingerprintIgnoresKeys ==
    TwoFingerprints =>
        /\ ValuesInKeyOrder(sec) = ValuesInKeyOrder(fpPrev.data) => hash = fpPrev.hash
        /\ Swapped(fpPrev.data, sec) => hash # fpPrev.hash

\* Two secrets with different key names and the same value have the same
\* fingerprint, which is not the empty one.
KeyNamesWitness ==
    /\ TwoFingerprints
    /\ DOMAIN sec # {}
    /\ DOMAIN sec \cap DOMAIN fpPrev.data = {}
    /\ ValuesInKeyOrder(sec) = ValuesInKeyOrder(fpPrev.data)
    /\ hash = fpPrev.hash
    /\ hash # <<>>

====
